---- MODULE Spec2Model ----
(***************************************************************************)
(* Model of the pipeline engine of easegress:                              *)
(*   pkg/object/pipeline/pipeline.go  (Spec.Validate, Pipeline.Init,       *)
(*   Pipeline.Inherit, Pipeline.reload, Pipeline.Handle, Pipeline.Status,  *)
(*   Pipeline.Close, serializeStats)                                       *)
(* and of its HTTP statistics:                                             *)
(*   pkg/util/httpstat/httpstat.go  (New, HTTPStat.Stat, HTTPStat.Status). *)
(*                                                                         *)
(* The specifications share the variables:                                 *)
(*   SpecValidate  applies Spec.Validate to every spec of a bounded set;   *)
(*   Spec          builds a generation from a validated spec (Init /       *)
(*                 Inherit through reload) and serves requests (Handle);   *)
(*   SpecFair      is Spec with the Handle loop run to its end;            *)
(*   SpecLife      is Spec with Close and Status called on generations;    *)
(*   SpecStat      runs concurrent Stat calls and Status on one HTTPStat;  *)
(*   SpecCallsFair runs the concurrent Stat calls alone, each scheduled;   *)
(*   SpecReload    runs Init and then Inherit with specs that may fail.    *)
(***************************************************************************)
EXTENDS Naturals, Sequences, FiniteSets

VARIABLES
    spec,      \* the Spec handed to Validate / to the pipeline being built
    pending,   \* specs the supervisor will present for a reload (<<>> or <<s>>)
    vdone,     \* Validate has returned
    verr,      \* what Validate returned
    p,         \* the Pipeline object: [filtersNil, filters, flow]
    prev,      \* the previous generation handed to Inherit
    rl,        \* position of Init/Inherit/reload on p
    inst,      \* every filter instance created so far, with the calls made on it
    h,         \* position and locals of Pipeline.Handle on p
    trace,     \* filters invoked by the current Handle call: <<[pos, name, label]>>
    hs,        \* the HTTPStat object
    tp,        \* per goroutine calling Stat: position in Stat and its locals
    snaps,     \* the Status values returned so far, oldest first
    log        \* the Stat calls that have returned: bag of [m, begin, end]

pipeVars == <<spec, pending, vdone, verr, p, prev, rl, inst, h, trace>>
statVars == <<hs, tp, snaps, log>>
vars == <<pipeVars, statVars>>

----------------------------------------------------------------------------
(* Bounds of the model.                                                    *)

\* longest flow handed to Validate
MaxFlowV == 2
\* longest list of filter entries in a spec
MaxFilters == 2
\* longest flow of a generation serving requests
MaxFlow == 3

----------------------------------------------------------------------------
(* Constants of pipeline.go.                                               *)

builtInFilterEnd == "END"
defaultRequest == "Default"

isBuiltInFilter(name) == name = builtInFilterEnd

\* The filter registry: kind -> the result labels the kind declares.
Registry == [K1 |-> {"x"}, K2 |-> {"x", "y"}]

QueryFilterRegistry(kind) == Registry[kind]

\* NewFilterSpec builds the FilterSpec of one filter entry; it fails on an
\* entry without a name or of a kind that is not registered.
NewFilterSpecOk(raw) == raw.name # "" /\ raw.kind \in DOMAIN Registry

----------------------------------------------------------------------------
(* Go maps as functions: a missing key reads as the zero value.            *)

EmptyMap == [k \in {} |-> 0]

MapPut(m, k, v) == [y \in (DOMAIN m) \cup {k} |-> IF y = k THEN v ELSE m[y]]

\* node.JumpIf[result]: "" when result is not a key
JumpLookup(jumpIf, result) == IF result \in DOMAIN jumpIf THEN jumpIf[result] ELSE ""

NoFilter == 0

FlowNode(f, reqID, useReq, jumpIf) ==
    [Filter |-> f, RequestID |-> reqID, ResponseID |-> "", UseRequest |-> useReq,
     JumpIf |-> jumpIf, filter |-> NoFilter]

----------------------------------------------------------------------------
(* Spec.Validate                                                           *)

NoErr == [prefix |-> "", rule |-> "nil", filter |-> "", arg |-> ""]

Err(prefix, rule, f, a) == [prefix |-> prefix, rule |-> rule, filter |-> f, arg |-> a]

\* 1: validate filter spec. Returns the first error, else the specs map.
RECURSIVE ValidateFilters(_, _, _)
ValidateFilters(fs, k, specs) ==
    IF k > Len(fs) THEN [err |-> NoErr, specs |-> specs]
    ELSE IF ~NewFilterSpecOk(fs[k])
         THEN [err |-> Err("filters", "spec", fs[k].name, fs[k].kind), specs |-> specs]
    ELSE IF isBuiltInFilter(fs[k].name)
         THEN [err |-> Err("filters", "builtin", fs[k].name, ""), specs |-> specs]
    ELSE ValidateFilters(fs, k + 1, MapPut(specs, fs[k].name, fs[k]))

\* The errors the loop over node.JumpIf can raise: Go ranges over a map in
\* an unspecified order, so any failing entry may be the one reported; in
\* one entry the result is checked before the target.
NodeJumpErrsSelf(node, results, validNames) ==
    LET J == node.JumpIf
        valid == validNames \cup {node.Filter}
    IN  {Err("flow", "result", node.Filter, r) : r \in {q \in DOMAIN J : q \notin results}}
        \cup
        {Err("flow", "target", node.Filter, J[r]) :
            r \in {q \in DOMAIN J : q \in results /\ J[q] \notin valid}}

NodeJumpErrsAnyResult(node, results, validNames) ==
    LET J == node.JumpIf
    IN  {Err("flow", "target", node.Filter, J[r]) :
            r \in {q \in DOMAIN J : J[q] \notin validNames}}

NodeJumpErrs(node, results, validNames) ==
    LET J == node.JumpIf
    IN  {Err("flow", "result", node.Filter, r) : r \in {q \in DOMAIN J : q \notin results}}
        \cup
        {Err("flow", "target", node.Filter, J[r]) :
            r \in {q \in DOMAIN J : q \in results /\ J[q] \notin validNames}}

\* 2.1: validate jumpIfs, from the last node to the first. Returns the set
\* of errors Validate may panic with, {NoErr} when there is none.
RECURSIVE ValidateJumpIfs(_, _, _, _)
ValidateJumpIfs(flow, i, specs, validNames) ==
    IF i < 1 THEN {NoErr}
    ELSE LET node == flow[i] IN
         IF node.Filter = builtInFilterEnd
         THEN ValidateJumpIfs(flow, i - 1, specs, validNames)
         ELSE IF node.Filter \notin DOMAIN specs
         THEN {Err("flow", "notfound", node.Filter, "")}
         ELSE LET results == QueryFilterRegistry(specs[node.Filter].kind)
                  errs == NodeJumpErrs(node, results, validNames)
              IN  IF errs # {} THEN errs
                  ELSE ValidateJumpIfs(flow, i - 1, specs, validNames \cup {node.Filter})

\* 2.2: validate request IDs, from the first node to the last.
RECURSIVE ValidateRequestIDsEarly(_, _, _)
ValidateRequestIDsEarly(flow, i, validNames) ==
    IF i > Len(flow) THEN NoErr
    ELSE LET node == flow[i]
             valid == IF node.RequestID # "" THEN validNames \cup {node.RequestID}
                      ELSE validNames
         IN  IF node.UseRequest # "" /\ node.UseRequest \notin valid
             THEN Err("flow", "request", node.Filter, node.UseRequest)
             ELSE ValidateRequestIDsEarly(flow, i + 1, valid)

RECURSIVE ValidateRequestIDs(_, _, _)
ValidateRequestIDs(flow, i, validNames) ==
    IF i > Len(flow) THEN NoErr
    ELSE LET node == flow[i] IN
         IF node.UseRequest # "" /\ node.UseRequest \notin validNames
         THEN Err("flow", "request", node.Filter, node.UseRequest)
         ELSE ValidateRequestIDs(flow, i + 1,
                  IF node.RequestID # "" THEN validNames \cup {node.RequestID}
                  ELSE validNames)

\* Every value Validate may return on s.
Validate(s) ==
    LET r1 == ValidateFilters(s.Filters, 1, EmptyMap) IN
    IF r1.err # NoErr THEN {r1.err}
    ELSE LET e2 == ValidateJumpIfs(s.Flow, Len(s.Flow), r1.specs, {builtInFilterEnd}) IN
         IF e2 # {NoErr} THEN e2
         ELSE {ValidateRequestIDs(s.Flow, 1, {defaultRequest})}

Validates(s) == Validate(s) = {NoErr}

----------------------------------------------------------------------------
(* Bounded inputs.                                                         *)

SeqsUpTo(S, n) == UNION {[1..k -> S] : k \in 0..n}

Names == {"A", "B"}
Targets == Names \cup {builtInFilterEnd}
Labels == {"x", "y"}

\* jumpIf tables of the specs handed to Validate: "x" may name any target,
\* "y" (declared by K2 only) names END.
JumpMapsV ==
    {m \in UNION {[D -> Targets] : D \in SUBSET Labels} :
        "y" \in DOMAIN m => m["y"] = builtInFilterEnd}

\* Flow nodes handed to Validate: nodes that jump, the END node, and nodes
\* that name requests.
NodesV ==
    {FlowNode(f, "", "", m) : f \in Names, m \in JumpMapsV}
    \cup {FlowNode(builtInFilterEnd, "", "", EmptyMap)}
    \cup {FlowNode(f, r, u, EmptyMap) :
            f \in Targets, r \in {"", "r1"}, u \in {"", defaultRequest, "r1"}}

\* Filter entries handed to Validate: A of either kind, B of kind K2, and an
\* entry that takes the built-in name.
EntriesV ==
    {[name |-> "A", kind |-> "K1"], [name |-> "A", kind |-> "K2"],
     [name |-> "B", kind |-> "K2"], [name |-> builtInFilterEnd, kind |-> "K1"]}

SpecsV == [Filters : SeqsUpTo(EntriesV, MaxFilters), Flow : SeqsUpTo(NodesV, MaxFlowV)]

----------------------------------------------------------------------------
(* State shared by the specifications.                                     *)

NoPipeline == [filtersNil |-> TRUE, filters |-> EmptyMap, flow |-> <<>>]

IdleReload == [pc |-> "none", k |-> 0, new |-> <<>>, hasPrev |-> FALSE]

IdleHandle == [pc |-> "idle", i |-> 0, result |-> "", next |-> "", stats |-> <<>>,
               tag |-> "", ret |-> ""]

----------------------------------------------------------------------------
(* The HTTPStat object of httpstat.go.                                     *)

\* Stat calls made in one behaviour
MaxStat == 3
\* Status calls made in one behaviour
MaxStatus == 2

\* the goroutines calling Stat, at once or one after the other
Threads == {"g1", "g2"}

\* math.MaxUint64, the initial min. It stands here as the largest integer
\* of the checker; what Stat and Status use of it is that no duration a
\* non-negative time.Duration yields in milliseconds reaches it.
MaxUint64 == 2147483647

\* metrics.EWMA: rates are kept in events per tick times RateUnit.
RateUnit == 1000

\* metrics.NewEWMA1/5/15: an average with decay alpha (in RateUnit-ths),
\* no event counted, no tick seen.
NewEWMA(alpha) == [alpha |-> alpha, uncounted |-> 0, rate |-> 0, init |-> FALSE]

\* EWMA.Update(n)
EWMAUpdate(e, n) == [e EXCEPT !.uncounted = @ + n]

\* EWMA.Tick(): the first tick sets the rate to the instant rate, later
\* ticks move it by alpha towards the instant rate.
EWMATick(e) ==
    LET instant == e.uncounted * RateUnit
    IN  [e EXCEPT !.uncounted = 0,
                  !.init = TRUE,
                  !.rate = IF e.init
                           THEN (e.rate * (RateUnit - e.alpha) + e.alpha * instant) \div RateUnit
                           ELSE instant]

\* EWMA.Rate()
EWMARate(e) == e.rate

\* New(): the counters at zero, min at math.MaxUint64, the sampler and the
\* code counter empty; mutex unlocked (readers holding RLock: none).
New ==
    [readers |-> 0,
     count |-> 0, rate1 |-> NewEWMA(80), rate5 |-> NewEWMA(17), rate15 |-> NewEWMA(6),
     errCount |-> 0, errRate1 |-> NewEWMA(80), errRate5 |-> NewEWMA(17),
     errRate15 |-> NewEWMA(6),
     total |-> 0, min |-> MaxUint64, max |-> 0,
     durationSampler |-> EmptyMap, reqSize |-> 0, respSize |-> 0, cc |-> EmptyMap]

NoMetric == [StatusCode |-> 0, Duration |-> 0, ReqSize |-> 0, RespSize |-> 0]

\* A goroutine outside Stat. The locals duration, min and max hold a value
\* only while they are in scope (0 otherwise).
IdleStat == [pc |-> "idle", m |-> NoMetric, duration |-> 0, min |-> 0, max |-> 0, begin |-> 0]

InitStat ==
    /\ hs = New
    /\ tp = [t \in Threads |-> IdleStat]
    /\ snaps = <<>>
    /\ log = EmptyMap

\* No HTTPStat object exists: the pipeline does not take part in it.
NoStat ==
    /\ hs = <<>>
    /\ tp = <<>>
    /\ snaps = <<>>
    /\ log = <<>>

(* SpecValidate: Validate applied to each spec of SpecsV.                  *)

InitValidate ==
    /\ spec \in SpecsV
    /\ pending = <<>>
    /\ vdone = FALSE
    /\ NoStat
    /\ verr = NoErr
    /\ p = NoPipeline
    /\ prev = NoPipeline
    /\ rl = IdleReload
    /\ inst = <<>>
    /\ h = IdleHandle
    /\ trace = <<>>

DoValidate ==
    /\ ~vdone
    /\ vdone' = TRUE
    /\ verr' \in Validate(spec)
    /\ UNCHANGED <<statVars, spec, pending, p, prev, rl, inst, h, trace>>

NextValidate == DoValidate

SpecValidate == InitValidate /\ [][NextValidate]_vars

----------------------------------------------------------------------------
(* Pipeline.Init, Pipeline.Inherit and Pipeline.reload                     *)

\* A Pipeline object before Init/Inherit. The object is built outside
\* pipeline.go; its filters field is the zero value (a nil map, as in the
\* &Pipeline{} of init()) or a map its creator allocated.
NewPipeline(nilMap) == [filtersNil |-> nilMap, filters |-> EmptyMap, flow |-> <<>>]

\* previousGeneration.filters[name]: nil when the name is not a key
MapGet(m, k) == IF k \in DOMAIN m THEN m[k] ELSE NoFilter

\* reload, "create new filters": the fresh instances of the entries fs, no
\* call made on them yet.
NewInstances(fs) == [k \in 1..Len(fs) |-> [name |-> fs[k].name, kind |-> fs[k].kind, calls |-> <<>>]]

CreateFailsFirst(fs) == Len(fs) > 0 /\ ~NewFilterSpecOk(fs[1])

\* reload, "create new filters": the loop panics at the first entry whose
\* spec NewFilterSpec cannot build or whose kind is not registered, before
\* the second loop has called any filter.
CreateFails(fs) == \E k \in 1..Len(fs) : ~NewFilterSpecOk(fs[k])

ReloadCreate(s, hasPrev) ==
    IF CreateFails(s.Filters)
    THEN /\ rl' = [pc |-> "panic", k |-> 0, new |-> <<>>, hasPrev |-> hasPrev]
         /\ inst' = inst
    ELSE /\ rl' = [pc |-> "init", k |-> 1,
                   new |-> [k \in 1..Len(s.Filters) |-> Len(inst) + k],
                   hasPrev |-> hasPrev]
         /\ inst' = inst \o NewInstances(s.Filters)

\* Init: p.reload(nil), up to the end of the creation loop.
PipelineInit ==
    /\ rl.pc = "none"
    /\ ReloadCreate(spec, FALSE)
    /\ UNCHANGED <<statVars, spec, pending, vdone, verr, p, prev, h, trace>>

\* Inherit on a new Pipeline object, the current generation being the
\* previous one: p.reload(previousGeneration), up to the end of the
\* creation loop.
PipelineInherit ==
    /\ rl.pc = "ready"
    /\ h.pc \in {"idle", "done"}
    /\ pending # <<>>
    /\ spec' = Head(pending)
    /\ pending' = Tail(pending)
    /\ prev' = p
    /\ \E nilMap \in BOOLEAN : p' = NewPipeline(nilMap)
    /\ ReloadCreate(Head(pending), TRUE)
    /\ h' = IdleHandle
    /\ trace' = <<>>
    /\ UNCHANGED <<statVars, vdone, verr>>

\* The call reload makes on the k-th new filter: Inherit when the previous
\* generation holds a filter of that name, Init otherwise.
FilterCallAlwaysInit(hasPrev, prevFilters, name) == [op |-> "Init", arg |-> NoFilter]

FilterCall(hasPrev, prevFilters, name) ==
    LET prevInst == IF hasPrev THEN MapGet(prevFilters, name) ELSE NoFilter
    IN  IF prevInst = NoFilter THEN [op |-> "Init", arg |-> NoFilter]
        ELSE [op |-> "Inherit", arg |-> prevInst]

\* One iteration of "initialize or inherit the new filters": the call on
\* the filter, then p.filters[spec.Name()] = filter, which panics on a nil
\* map.
ReloadFilter ==
    /\ rl.pc = "init"
    /\ rl.k <= Len(rl.new)
    /\ LET id == rl.new[rl.k]
           name == spec.Filters[rl.k].name
           call == FilterCall(rl.hasPrev, prev.filters, name)
       IN  /\ inst' = [inst EXCEPT ![id].calls = Append(@, call)]
           /\ IF p.filtersNil
              THEN /\ rl' = [rl EXCEPT !.pc = "panic"]
                   /\ p' = p
              ELSE /\ rl' = [rl EXCEPT !.k = @ + 1]
                   /\ p' = [p EXCEPT !.filters = MapPut(@, name, id)]
    /\ UNCHANGED <<statVars, spec, pending, vdone, verr, prev, h, trace>>

\* "if the pipeline spec does not define a flow, define it in the filter
\* appear order"
CompileFlow(s) ==
    IF Len(s.Flow) = 0
    THEN [k \in 1..Len(s.Filters) |-> FlowNode(s.Filters[k].name, "", "", EmptyMap)]
    ELSE s.Flow

\* "bind filter instance to flow node"
BindFlow(flow, filters) ==
    [i \in 1..Len(flow) |->
        IF flow[i].Filter # builtInFilterEnd
        THEN [flow[i] EXCEPT !.filter = MapGet(filters, flow[i].Filter)]
        ELSE flow[i]]

\* The end of reload: p.flow = flow.
ReloadBind ==
    /\ rl.pc = "init"
    /\ rl.k > Len(rl.new)
    /\ p' = [p EXCEPT !.flow = BindFlow(CompileFlow(spec), p.filters)]
    /\ rl' = [rl EXCEPT !.pc = "ready"]
    /\ UNCHANGED <<statVars, spec, pending, vdone, verr, prev, inst, h, trace>>

----------------------------------------------------------------------------
(* serializeStats                                                          *)

RECURSIVE JoinStats(_, _)
JoinStats(stats, i) ==
    IF i > Len(stats) THEN ""
    ELSE (IF i > 1 THEN "->" ELSE "")
         \o stats[i].Name \o "("
         \o (IF stats[i].Result # "" THEN stats[i].Result \o "," ELSE "")
         \o stats[i].Duration \o ")"
         \o JoinStats(stats, i + 1)

serializeStats(stats) ==
    IF Len(stats) = 0 THEN "pipeline: <empty>"
    ELSE "pipeline: " \o JoinStats(stats, 1)

----------------------------------------------------------------------------
(* Pipeline.Handle                                                         *)

\* What a filter's Handle may return: the empty label or a result label.
Results == {""} \cup Labels

\* fasttime.Since(start), as Duration.String() prints it
Durations == {"1ms"}

\* "if next != "" && node.Filter != next { continue }"
ShouldSkipNever(next, node) == FALSE

ShouldSkip(next, node) == next # "" /\ node.Filter # next

\* "result = node.filter.Handle(ctx)"
ResultAfterNonEmpty(result, label) == IF label = "" THEN result ELSE label

ResultAfter(result, label) == label

\* "if result != "" { next = node.JumpIf[result] }"
NextAfterBreak(next, node, result) ==
    IF result = "" THEN next
    ELSE IF result \in DOMAIN node.JumpIf THEN node.JumpIf[result]
    ELSE builtInFilterEnd

NextAfter(next, node, result) ==
    IF result # "" THEN JumpLookup(node.JumpIf, result) ELSE next

\* "for i := range p.flow": the index after i
NextIndexRescan(flow, i, next) ==
    IF next # "" /\ \E j \in 1..Len(flow) : flow[j].Filter = next
    THEN CHOOSE j \in 1..Len(flow) :
            /\ flow[j].Filter = next
            /\ \A q \in 1..(j - 1) : flow[q].Filter # next
    ELSE i + 1

NextIndex(flow, i, next) == i + 1

\* The loop position after the iteration at i: the next index, or the end
\* of the loop when the flow is exhausted.
Advance(i, next) ==
    LET j == NextIndex(p.flow, i, next)
    IN  IF j > Len(p.flow) THEN [h EXCEPT !.pc = "tag", !.i = j]
        ELSE [h EXCEPT !.i = j]

HandleCall ==
    /\ rl.pc = "ready"
    /\ h.pc \in {"idle", "done"}
    /\ h' = [pc |-> IF Len(p.flow) = 0 THEN "tag" ELSE "loop", i |-> 1,
             result |-> "", next |-> "", stats |-> <<>>, tag |-> "", ret |-> ""]
    /\ trace' = <<>>
    /\ UNCHANGED <<statVars, spec, pending, vdone, verr, p, prev, rl, inst>>

\* An iteration that skips its node.
HandleSkip ==
    /\ h.pc = "loop"
    /\ ShouldSkip(h.next, p.flow[h.i])
    /\ h' = Advance(h.i, h.next)
    /\ UNCHANGED <<statVars, spec, pending, vdone, verr, p, prev, rl, inst, trace>>

\* An iteration at the END node: break.
HandleEnd ==
    /\ h.pc = "loop"
    /\ ~ShouldSkip(h.next, p.flow[h.i])
    /\ p.flow[h.i].Filter = builtInFilterEnd
    /\ h' = [h EXCEPT !.pc = "tag"]
    /\ UNCHANGED <<statVars, spec, pending, vdone, verr, p, prev, rl, inst, trace>>

\* An iteration that invokes its node's filter, which returns label after
\* dur; a node without a filter instance makes the call panic.
HandleFilter ==
    /\ h.pc = "loop"
    /\ ~ShouldSkip(h.next, p.flow[h.i])
    /\ p.flow[h.i].Filter # builtInFilterEnd
    /\ LET node == p.flow[h.i] IN
       IF node.filter = NoFilter
       THEN /\ h' = [h EXCEPT !.pc = "panic"]
            /\ trace' = trace
       ELSE \E label \in Results, dur \in Durations :
            LET result == ResultAfter(h.result, label)
                stat == [Name |-> node.Filter, Kind |-> inst[node.filter].kind,
                         Duration |-> dur, Result |-> result]
                next == NextAfter(h.next, node, result)
                h1 == [Advance(h.i, next) EXCEPT !.result = result, !.next = next,
                                                 !.stats = Append(h.stats, stat)]
            IN  /\ h' = IF next = builtInFilterEnd
                        THEN [h1 EXCEPT !.pc = "tag", !.i = h.i]
                        ELSE h1
                /\ trace' = Append(trace, [pos |-> h.i, name |-> node.Filter,
                                           label |-> label])
    /\ UNCHANGED <<statVars, spec, pending, vdone, verr, p, prev, rl, inst>>

\* After the loop: ctx.AddTag(serializeStats(stats)); return result.
HandleReturn ==
    /\ h.pc = "tag"
    /\ h' = [h EXCEPT !.pc = "done", !.tag = serializeStats(h.stats), !.ret = h.result]
    /\ UNCHANGED <<statVars, spec, pending, vdone, verr, p, prev, rl, inst, trace>>

----------------------------------------------------------------------------
(* Spec: generations built from validated specs, serving requests.         *)

\* Specs whose flow exercises Handle: two filters of kind K2 and a flow of
\* up to MaxFlow nodes, each the END node or a node with a jumpIf table.
HandleFilters == <<[name |-> "A", kind |-> "K2"], [name |-> "B", kind |-> "K2"]>>

HandleNodes ==
    {FlowNode(f, "", "", m) : f \in Names, m \in JumpMapsV}
    \cup {FlowNode(builtInFilterEnd, "", "", EmptyMap)}

HandleSpecs ==
    {s \in [Filters : {HandleFilters}, Flow : SeqsUpTo(HandleNodes, MaxFlow)] : Validates(s)}

\* Specs that exercise reload: up to MaxFilters entries named A or B, and
\* no flow or a flow of one node.
ReloadEntries == [name : Names, kind : {"K2"}]

ReloadNodes == {FlowNode(f, "", "", EmptyMap) : f \in Targets}

ReloadSpecs ==
    {s \in [Filters : SeqsUpTo(ReloadEntries, MaxFilters), Flow : SeqsUpTo(ReloadNodes, 1)] :
        Validates(s)}

Init ==
    /\ \/ /\ spec \in HandleSpecs
          /\ pending = <<>>
       \/ /\ spec \in ReloadSpecs
          /\ pending \in {<<s>> : s \in ReloadSpecs}
    /\ vdone = TRUE
    /\ verr = NoErr
    /\ \E nilMap \in BOOLEAN : p = NewPipeline(nilMap)
    /\ prev = NoPipeline
    /\ rl = IdleReload
    /\ inst = <<>>
    /\ h = IdleHandle
    /\ trace = <<>>
    /\ NoStat

Next ==
    \/ PipelineInit
    \/ PipelineInherit
    \/ ReloadFilter
    \/ ReloadBind
    \/ HandleCall
    \/ HandleSkip
    \/ HandleEnd
    \/ HandleFilter
    \/ HandleReturn

Spec == Init /\ [][Next]_vars

\* Spec with the scheduling Handle relies on: the loop is run to its end,
\* every filter's Handle returning.
SpecFair ==
    Spec /\ WF_vars(HandleSkip \/ HandleEnd \/ HandleFilter \/ HandleReturn)

----------------------------------------------------------------------------
(* Properties of Pipeline.Handle                                           *)

\* The first position after i whose node is named T, 0 when there is none.
FirstAfter(flow, i, T) ==
    IF \E j \in (i + 1)..Len(flow) : flow[j].Filter = T
    THEN CHOOSE j \in (i + 1)..Len(flow) :
            /\ flow[j].Filter = T
            /\ \A q \in (i + 1)..(j - 1) : flow[q].Filter # T
    ELSE 0

HandleOver == h.pc \in {"tag", "done"}

\* C1: when an executed node's filter returns a non-empty label L that the
\* node's jumpIf maps to T: if T is END no further filter is invoked and
\* Handle returns L; otherwise the next filter invoked is the one at the
\* first later node named T, none of the nodes between being invoked.
C1_JumpRule ==
    \A k \in 1..Len(trace) :
        LET e == trace[k]
            J == p.flow[e.pos].JumpIf
        IN  (e.label # "" /\ e.label \in DOMAIN J) =>
                IF J[e.label] = builtInFilterEnd
                THEN /\ k = Len(trace)
                     /\ HandleOver
                     /\ h.result = e.label
                     /\ h.pc = "done" => h.ret = e.label
                ELSE LET j == FirstAfter(p.flow, e.pos, J[e.label]) IN
                     /\ j # 0
                     /\ IF k < Len(trace) THEN trace[k + 1].pos = j
                        ELSE h.pc = "loop" /\ e.pos < h.i /\ h.i <= j

\* A jump over a node: the first node returned "x", the third ran next.
C1_Witness ==
    /\ h.pc = "done"
    /\ Len(trace) = 2
    /\ trace[1].pos = 1 /\ trace[1].label = "x"
    /\ trace[2].pos = 3

\* What follows the node at pos when its filter returns label, going by
\* the node's jumpIf and the label alone: a position, or 0 for the end.
ExpectedNext(flow, pos, label) ==
    IF label \in DOMAIN flow[pos].JumpIf
    THEN IF flow[pos].JumpIf[label] = builtInFilterEnd THEN 0
         ELSE FirstAfter(flow, pos, flow[pos].JumpIf[label])
    ELSE IF pos < Len(flow) /\ flow[pos + 1].Filter # builtInFilterEnd THEN pos + 1
    ELSE 0

\* C2: what runs after a node is decided by the node's jumpIf and the
\* label its filter returned, whatever ran before; a label without an
\* entry in jumpIf (the empty one too) continues at the following node.
C2_NextDecidedByNodeAndLabel ==
    \A k \in 1..Len(trace) :
        LET want == ExpectedNext(p.flow, trace[k].pos, trace[k].label) IN
        /\ k < Len(trace) => trace[k + 1].pos = want
        /\ (k = Len(trace) /\ HandleOver) => want = 0

\* C3: the first executed node has jumpIf = {x: END} and its filter returns
\* "y": Handle goes on, and the filter of the following node runs next.
C3_UnmatchedLabelContinues ==
    (/\ Len(trace) >= 1
     /\ DOMAIN p.flow[trace[1].pos].JumpIf = {"x"}
     /\ p.flow[trace[1].pos].JumpIf["x"] = builtInFilterEnd
     /\ trace[1].label = "y"
     /\ trace[1].pos < Len(p.flow)
     /\ p.flow[trace[1].pos + 1].Filter # builtInFilterEnd)
    => IF Len(trace) = 1
       THEN h.pc = "loop" /\ h.i = trace[1].pos + 1 /\ h.next = ""
       ELSE trace[2].pos = trace[1].pos + 1

C3_Witness ==
    /\ Len(trace) >= 2
    /\ DOMAIN p.flow[trace[1].pos].JumpIf = {"x"}
    /\ p.flow[trace[1].pos].JumpIf["x"] = builtInFilterEnd
    /\ trace[1].label = "y"
    /\ trace[2].pos = trace[1].pos + 1

\* C4: Handle returns the label of the last filter it invoked, and the
\* empty label when it invoked none.
C4_ReturnsLastLabel ==
    h.pc = "done" =>
        h.ret = IF Len(trace) = 0 THEN "" ELSE trace[Len(trace)].label

\* Two filters ran, the last of them returned the empty label.
C4_Witness ==
    /\ h.pc = "done"
    /\ Len(trace) = 2
    /\ trace[1].label = "y"
    /\ trace[2].label = ""
    /\ h.ret = ""

\* C5: Handle terminates, and the positions of the filters it invokes
\* increase strictly.
C5_TerminatesInFlowOrder ==
    /\ [](/\ \A k \in 1..Len(trace) :
               /\ trace[k].pos \in 1..Len(p.flow)
               /\ k < Len(trace) => trace[k].pos < trace[k + 1].pos
          /\ h.pc = "loop" =>
               /\ h.i \in 1..Len(p.flow)
               /\ \A k \in 1..Len(trace) : trace[k].pos < h.i)
    /\ (h.pc = "loop") ~> (h.pc = "done")

C5_Witness ==
    /\ h.pc = "done"
    /\ Len(trace) = 3
    /\ trace[1].label = "x"

----------------------------------------------------------------------------
(* Properties of Spec.Validate                                             *)

FilterNames(fs) == {fs[k].name : k \in 1..Len(fs)}

\* The entry Validate keeps for a name: the last one of that name.
LastEntry(fs, name) ==
    fs[CHOOSE k \in 1..Len(fs) :
            /\ fs[k].name = name
            /\ \A q \in (k + 1)..Len(fs) : fs[q].name # name]

FiltersOk(fs) ==
    \A k \in 1..Len(fs) : NewFilterSpecOk(fs[k]) /\ fs[k].name # builtInFilterEnd

NodesDefined(s) ==
    \A i \in 1..Len(s.Flow) :
        s.Flow[i].Filter # builtInFilterEnd => s.Flow[i].Filter \in FilterNames(s.Filters)

Declared(s, i) == Registry[LastEntry(s.Filters, s.Flow[i].Filter).kind]

KeysDeclared(s) ==
    \A i \in 1..Len(s.Flow) :
        (s.Flow[i].Filter # builtInFilterEnd /\ s.Flow[i].Filter \in FilterNames(s.Filters))
        => DOMAIN s.Flow[i].JumpIf \subseteq Declared(s, i)

\* T is END or names a node after position i.
Forward(flow, i, T) ==
    T = builtInFilterEnd \/ \E j \in (i + 1)..Len(flow) : flow[j].Filter = T

ForwardOnly(flow) ==
    \A i \in 1..Len(flow) :
        flow[i].Filter # builtInFilterEnd =>
            \A r \in DOMAIN flow[i].JumpIf : Forward(flow, i, flow[i].JumpIf[r])

\* C6: Validate returns nil only if every jumpIf target of every non-END
\* node is END or the name of a later node; a "target not found" error
\* names a node and a target of it that is not one, and it is the error
\* returned when such a jump is all that is wrong with the spec.
C6_ForwardOnlyJumps ==
    vdone =>
        /\ verr = NoErr => ForwardOnly(spec.Flow)
        /\ verr.rule = "target" =>
              /\ verr.prefix = "flow"
              /\ \E i \in 1..Len(spec.Flow) :
                    /\ spec.Flow[i].Filter = verr.filter
                    /\ verr.filter # builtInFilterEnd
                    /\ \E r \in DOMAIN spec.Flow[i].JumpIf :
                          /\ spec.Flow[i].JumpIf[r] = verr.arg
                          /\ ~Forward(spec.Flow, i, verr.arg)
        /\ (/\ FiltersOk(spec.Filters) /\ NodesDefined(spec) /\ KeysDeclared(spec)
            /\ ~ForwardOnly(spec.Flow))
           => verr.rule = "target"

\* flow [A, B] with B.jumpIf = {x: A} is rejected, the error naming B and A.
C6_Witness ==
    /\ vdone
    /\ Len(spec.Flow) = 2
    /\ spec.Flow[1] = FlowNode("A", "", "", EmptyMap)
    /\ spec.Flow[2] = FlowNode("B", "", "", [r \in {"x"} |-> "A"])
    /\ verr = Err("flow", "target", "B", "A")

\* C7: Validate returns nil only if every non-END node names a filter of
\* the spec and every jumpIf key is a result its filter's kind declares; a
\* "result is not in" error names a node and a key of it the kind does
\* not declare, and it is the error returned when such a key is all that
\* is wrong with the spec.
C7_JumpKeysDeclared ==
    vdone =>
        /\ verr = NoErr => NodesDefined(spec) /\ KeysDeclared(spec)
        /\ verr.rule = "result" =>
              /\ verr.prefix = "flow"
              /\ \E i \in 1..Len(spec.Flow) :
                    /\ spec.Flow[i].Filter = verr.filter
                    /\ verr.filter \in FilterNames(spec.Filters)
                    /\ verr.arg \in DOMAIN spec.Flow[i].JumpIf
                    /\ verr.arg \notin Declared(spec, i)
        /\ (/\ FiltersOk(spec.Filters) /\ NodesDefined(spec) /\ ForwardOnly(spec.Flow)
            /\ ~KeysDeclared(spec))
           => verr.rule = "result"

\* A filter of kind K1 (results {x}) with jumpIf = {y: END} is rejected, the
\* error naming the filter and "y".
C7_Witness ==
    /\ vdone
    /\ spec.Filters = <<[name |-> "A", kind |-> "K1"]>>
    /\ spec.Flow = <<FlowNode("A", "", "", [r \in {"y"} |-> builtInFilterEnd])>>
    /\ verr = Err("flow", "result", "A", "y")

\* useRequest of node i is "Default" or the requestID of an earlier node.
RequestDefined(flow, i) ==
    \/ flow[i].UseRequest = defaultRequest
    \/ \E j \in 1..(i - 1) : flow[j].RequestID = flow[i].UseRequest

\* C8: Validate returns nil only if every non-empty useRequest is "Default"
\* or the requestID of a node at an earlier position; a node that uses
\* only its own or a later node's requestID is rejected.
C8_UseRequestDefinedEarlier ==
    vdone =>
        /\ verr = NoErr =>
              \A i \in 1..Len(spec.Flow) :
                  spec.Flow[i].UseRequest # "" => RequestDefined(spec.Flow, i)
        /\ verr.rule = "request" =>
              \E i \in 1..Len(spec.Flow) :
                  /\ spec.Flow[i].Filter = verr.filter
                  /\ spec.Flow[i].UseRequest = verr.arg
                  /\ verr.arg # ""
                  /\ ~RequestDefined(spec.Flow, i)

\* A node that uses the request it names itself is rejected.
C8_Witness ==
    /\ vdone
    /\ spec.Filters = <<[name |-> "A", kind |-> "K2"]>>
    /\ spec.Flow = <<FlowNode("A", "r1", "r1", EmptyMap)>>
    /\ verr = Err("flow", "request", "A", "r1")

\* C9: Validate rejects every spec in which two filter entries carry the
\* same name, and every spec with a filter named END.
C9_RejectsDuplicateNames ==
    (vdone /\ verr = NoErr) =>
        /\ \A k, q \in 1..Len(spec.Filters) :
              spec.Filters[k].name = spec.Filters[q].name => k = q
        /\ builtInFilterEnd \notin FilterNames(spec.Filters)

----------------------------------------------------------------------------
(* Properties of reload                                                    *)

\* Init or Inherit has returned, or has panicked.
ReloadOver == rl.pc \in {"ready", "panic"}

\* C10: in Inherit every filter entry of the new spec gets exactly one call
\* on its fresh instance: Inherit with the previous generation's filter of
\* that name when there is one, Init otherwise; Init never calls Inherit.
C10_InitOrInheritOncePerEntry ==
    ReloadOver =>
        /\ Len(rl.new) = Len(spec.Filters)
        /\ rl.hasPrev =>
              \A k \in 1..Len(rl.new) :
                  LET name == spec.Filters[k].name IN
                  inst[rl.new[k]].calls =
                      IF name \in DOMAIN prev.filters
                      THEN <<[op |-> "Inherit", arg |-> prev.filters[name]]>>
                      ELSE <<[op |-> "Init", arg |-> NoFilter]>>
        /\ ~rl.hasPrev =>
              \A k \in 1..Len(rl.new) :
                  \A c \in 1..Len(inst[rl.new[k]].calls) :
                      inst[rl.new[k]].calls[c].op # "Inherit"

----------------------------------------------------------------------------
(* Pipeline.Close and Pipeline.Status                                      *)

\* most calls of one kind (Close, Status) made on one filter instance
MaxCalls == 2

\* How often op has been called on instance id.
CountOp(id, op) ==
    Cardinality({c \in 1..Len(inst[id].calls) : inst[id].calls[c].op = op})

\* The generation a call is made on: the current object, or the previous
\* generation, which stays installed while Inherit runs and may still be
\* called by requests and status collection that held it before the swap.
Generation(g) == IF g = "old" THEN prev ELSE p

HasGeneration(g) == IF g = "old" THEN rl.hasPrev ELSE rl.pc = "ready"

\* "for _, filter := range p.filters": the instances the map holds
FilterSet(pl) == {pl.filters[n] : n \in DOMAIN pl.filters}

\* op called once on each instance of ids.
CallAll(ids, op) ==
    [id \in 1..Len(inst) |->
        IF id \in ids
        THEN [inst[id] EXCEPT !.calls = Append(@, [op |-> op, arg |-> NoFilter])]
        ELSE inst[id]]

\* Close: filter.Close() on every filter of the map.
PipelineClose ==
    \E g \in {"cur", "old"} :
        /\ HasGeneration(g)
        /\ FilterSet(Generation(g)) # {}
        /\ \A id \in FilterSet(Generation(g)) : CountOp(id, "Close") < MaxCalls
        /\ inst' = CallAll(FilterSet(Generation(g)), "Close")
        /\ UNCHANGED <<statVars, spec, pending, vdone, verr, p, prev, rl, h, trace>>

\* Status: filter.Status() on every filter of the map.
PipelineStatus ==
    \E g \in {"cur", "old"} :
        /\ HasGeneration(g)
        /\ FilterSet(Generation(g)) # {}
        /\ \A id \in FilterSet(Generation(g)) : CountOp(id, "Status") < MaxCalls
        /\ inst' = CallAll(FilterSet(Generation(g)), "Status")
        /\ UNCHANGED <<statVars, spec, pending, vdone, verr, p, prev, rl, h, trace>>

NextLife == Next \/ PipelineClose \/ PipelineStatus

\* Spec with the teardown and status calls of the supervisor.
SpecLife == Init /\ [][NextLife]_vars

----------------------------------------------------------------------------
(* Properties of the generations' life cycle                               *)

\* C11: after Inherit has completed, Close has been called exactly once on
\* each filter of the previous generation whose name the new spec lacks,
\* and on none whose name it has.
C11_DroppedFiltersClosedOnce ==
    (rl.pc = "ready" /\ rl.hasPrev) =>
        \A n \in DOMAIN prev.filters :
            CountOp(prev.filters[n], "Close") =
                IF n \in FilterNames(spec.Filters) THEN 0 ELSE 1

\* C16: over any number of Close calls on a pipeline each filter instance
\* is closed exactly once: a further Close closes no filter again.
C16_CloseIdempotent ==
    \A id \in 1..Len(inst) : CountOp(id, "Close") <= 1

\* C17: Init on a new Pipeline object completes, the filters map has the
\* spec's filter names as keys, each mapped to an instance Init was called
\* on, and every non-END node of the flow is bound to the instance stored
\* under its filter name.
C17_InitBuildsGeneration ==
    (ReloadOver /\ ~rl.hasPrev) =>
        /\ rl.pc = "ready"
        /\ ~p.filtersNil
        /\ DOMAIN p.filters = FilterNames(spec.Filters)
        /\ \A n \in DOMAIN p.filters :
              /\ p.filters[n] # NoFilter
              /\ inst[p.filters[n]].calls[1] = [op |-> "Init", arg |-> NoFilter]
        /\ \A i \in 1..Len(p.flow) :
              p.flow[i].Filter # builtInFilterEnd =>
                  /\ p.flow[i].Filter \in DOMAIN p.filters
                  /\ p.flow[i].filter = p.filters[p.flow[i].Filter]

\* Instance o has been handed to the Inherit of a new instance.
HandedOff(o) ==
    \E id \in 1..Len(inst) :
        \E c \in 1..Len(inst[id].calls) :
            inst[id].calls[c] = [op |-> "Inherit", arg |-> o]

\* How often o has been handed to Inherit, in the instances is.
Handoffs(is, o) ==
    Cardinality({x \in {<<id, c>> : id \in 1..Len(is), c \in 1..MaxCalls + MaxCalls + 1} :
        /\ x[2] <= Len(is[x[1]].calls)
        /\ is[x[1]].calls[x[2]] = [op |-> "Inherit", arg |-> o]})

\* C18: once Inherit has returned for an old instance, no method is called
\* on that instance again and it is not handed to Inherit again.
C18_NoUseAfterHandOff ==
    [][\A o \in 1..Len(inst) :
          HandedOff(o) =>
              /\ inst'[o].calls = inst[o].calls
              /\ Handoffs(inst', o) = Handoffs(inst, o)]_vars

----------------------------------------------------------------------------
(* HTTPStat.Stat and HTTPStat.Status                                       *)

\* units of the model's time.Duration in one millisecond
TicksPerMs == 2

\* Duration.Milliseconds(): whole milliseconds, the rest cut off
Milliseconds(d) == d \div TicksPerMs

\* Durations and metrics handed to Stat: status codes on both sides of the
\* error threshold, durations of 0, 1 and 2 whole milliseconds.
StatDurations == {1, 2, 5}

Metrics == [StatusCode : {399, 400}, Duration : StatDurations, ReqSize : {1}, RespSize : {2}]

isErrAbove(m) == m.StatusCode > 400

\* Metric.isErr
isErr(m) == m.StatusCode >= 400

\* atomic.AddUint64: one indivisible read-modify-write. The sums of the
\* model stay far below 2^64.
AddUint64(x, d) == x + d

CompareAndSwapStore(cur, old, new) == [ok |-> TRUE, val |-> new]

\* atomic.CompareAndSwapUint64(&cur, old, new): the value after it and
\* whether it swapped
CompareAndSwapUint64(cur, old, new) ==
    IF cur = old THEN [ok |-> TRUE, val |-> new] ELSE [ok |-> FALSE, val |-> cur]

\* Bags as functions from element to count.
CountIn(b, x) == IF x \in DOMAIN b THEN b[x] ELSE 0

BagAdd(b, x) == [y \in (DOMAIN b) \cup {x} |-> CountIn(b, y) + (IF y = x THEN 1 ELSE 0)]

RECURSIVE SumOver(_, _)
SumOver(b, S) ==
    IF S = {} THEN 0
    ELSE LET x == CHOOSE y \in S : TRUE IN b[x] + SumOver(b, S \ {x})

BagSize(b) == SumOver(b, DOMAIN b)

\* DurationSampler.Update(d): the sampler holds the samples given to it
\* since its last Reset.
SamplerUpdate(sampler, d) == BagAdd(sampler, d)

\* CodeCounter.Count(code): one more of code since the last Reset.
CodeCounterCount(cc, code) == BagAdd(cc, code)

\* Stat calls begun so far
Started == BagSize(log) + Cardinality({t \in Threads : tp[t].pc # "idle"})

\* Stat, entry: hs.mutex.RLock(). Status holds the write lock only within
\* its own step, so the read lock is free whenever a goroutine asks.
StatRLock ==
    \E t \in Threads, m \in Metrics :
        /\ tp[t].pc = "idle"
        /\ Started < MaxStat
        /\ hs' = [hs EXCEPT !.readers = @ + 1]
        /\ tp' = [tp EXCEPT ![t] = [IdleStat EXCEPT !.pc = "count", !.m = m,
                                                    !.begin = Len(snaps)]]
        /\ UNCHANGED <<pipeVars, snaps, log>>

\* count and the three rates
StatCount ==
    \E t \in Threads :
        /\ tp[t].pc = "count"
        /\ hs' = [hs EXCEPT !.count = AddUint64(@, 1),
                            !.rate1 = EWMAUpdate(@, 1),
                            !.rate5 = EWMAUpdate(@, 1),
                            !.rate15 = EWMAUpdate(@, 1)]
        /\ tp' = [tp EXCEPT ![t].pc = IF isErr(tp[t].m) THEN "err" ELSE "total"]
        /\ UNCHANGED <<pipeVars, snaps, log>>

\* "if m.isErr()": errCount and the three error rates
StatErr ==
    \E t \in Threads :
        /\ tp[t].pc = "err"
        /\ hs' = [hs EXCEPT !.errCount = AddUint64(@, 1),
                            !.errRate1 = EWMAUpdate(@, 1),
                            !.errRate5 = EWMAUpdate(@, 1),
                            !.errRate15 = EWMAUpdate(@, 1)]
        /\ tp' = [tp EXCEPT ![t].pc = "total"]
        /\ UNCHANGED <<pipeVars, snaps, log>>

\* duration := uint64(m.Duration.Milliseconds()); total += duration
StatTotal ==
    \E t \in Threads :
        /\ tp[t].pc = "total"
        /\ hs' = [hs EXCEPT !.total = AddUint64(@, Milliseconds(tp[t].m.Duration))]
        /\ tp' = [tp EXCEPT ![t].pc = "minLoad",
                            ![t].duration = Milliseconds(tp[t].m.Duration)]
        /\ UNCHANGED <<pipeVars, snaps, log>>

\* min := atomic.LoadUint64(&hs.min); if duration >= min { break }
StatMinLoad ==
    \E t \in Threads :
        /\ tp[t].pc = "minLoad"
        /\ tp' = IF tp[t].duration >= hs.min
                 THEN [tp EXCEPT ![t].min = 0, ![t].pc = "maxLoad"]
                 ELSE [tp EXCEPT ![t].min = hs.min, ![t].pc = "minCAS"]
        /\ UNCHANGED <<pipeVars, hs, snaps, log>>

\* if atomic.CompareAndSwapUint64(&hs.min, min, duration) { break }
StatMinCAS ==
    \E t \in Threads :
        /\ tp[t].pc = "minCAS"
        /\ LET r == CompareAndSwapUint64(hs.min, tp[t].min, tp[t].duration)
           IN  /\ hs' = [hs EXCEPT !.min = r.val]
               /\ tp' = IF r.ok
                        THEN [tp EXCEPT ![t].min = 0, ![t].pc = "maxLoad"]
                        ELSE [tp EXCEPT ![t].pc = "minLoad"]
        /\ UNCHANGED <<pipeVars, snaps, log>>

\* max := atomic.LoadUint64(&hs.max); if duration <= max { break }
StatMaxLoad ==
    \E t \in Threads :
        /\ tp[t].pc = "maxLoad"
        /\ tp' = IF tp[t].duration <= hs.max
                 THEN [tp EXCEPT ![t].max = 0, ![t].duration = 0, ![t].pc = "sample"]
                 ELSE [tp EXCEPT ![t].max = hs.max, ![t].pc = "maxCAS"]
        /\ UNCHANGED <<pipeVars, hs, snaps, log>>

\* if atomic.CompareAndSwapUint64(&hs.max, max, duration) { break }
StatMaxCAS ==
    \E t \in Threads :
        /\ tp[t].pc = "maxCAS"
        /\ LET r == CompareAndSwapUint64(hs.max, tp[t].max, tp[t].duration)
           IN  /\ hs' = [hs EXCEPT !.max = r.val]
               /\ tp' = IF r.ok
                        THEN [tp EXCEPT ![t].max = 0, ![t].duration = 0, ![t].pc = "sample"]
                        ELSE [tp EXCEPT ![t].pc = "maxLoad"]
        /\ UNCHANGED <<pipeVars, snaps, log>>

\* hs.durationSampler.Update(m.Duration): the sample joins those held
StatSample ==
    \E t \in Threads :
        /\ tp[t].pc = "sample"
        /\ hs' = [hs EXCEPT !.durationSampler = SamplerUpdate(@, tp[t].m.Duration)]
        /\ tp' = [tp EXCEPT ![t].pc = "sizes"]
        /\ UNCHANGED <<pipeVars, snaps, log>>

\* reqSize += m.ReqSize; respSize += m.RespSize
StatSizes ==
    \E t \in Threads :
        /\ tp[t].pc = "sizes"
        /\ hs' = [hs EXCEPT !.reqSize = AddUint64(@, tp[t].m.ReqSize),
                            !.respSize = AddUint64(@, tp[t].m.RespSize)]
        /\ tp' = [tp EXCEPT ![t].pc = "code"]
        /\ UNCHANGED <<pipeVars, snaps, log>>

\* hs.cc.Count(m.StatusCode)
StatCode ==
    \E t \in Threads :
        /\ tp[t].pc = "code"
        /\ hs' = [hs EXCEPT !.cc = CodeCounterCount(@, tp[t].m.StatusCode)]
        /\ tp' = [tp EXCEPT ![t].pc = "unlock"]
        /\ UNCHANGED <<pipeVars, snaps, log>>

\* the deferred hs.mutex.RUnlock(): Stat returns
StatRUnlock ==
    \E t \in Threads :
        /\ tp[t].pc = "unlock"
        /\ hs' = [hs EXCEPT !.readers = @ - 1]
        /\ log' = BagAdd(log, [m |-> tp[t].m, begin |-> tp[t].begin, end |-> Len(snaps)])
        /\ tp' = [tp EXCEPT ![t] = IdleStat]
        /\ UNCHANGED <<pipeVars, snaps>>

LockAlways(s) == TRUE

\* hs.mutex.Lock(): taken when no goroutine holds the read lock
Lock(s) == s.readers = 0

\* the six Tick() calls
TickAll(s) ==
    [s EXCEPT !.rate1 = EWMATick(@), !.rate5 = EWMATick(@), !.rate15 = EWMATick(@),
              !.errRate1 = EWMATick(@), !.errRate5 = EWMATick(@),
              !.errRate15 = EWMATick(@)]

\* Floating-point quotients are kept as fractions; 0.0 is Zero.
Div(a, b) == [num |-> a, den |-> b]

Zero == [num |-> 0, den |-> 1]

\* same number
SameValue(x, y) == x.num * y.den = y.num * x.den

\* The three locals m1ErrPercent, m5ErrPercent, m15ErrPercent start at 0.0
\* and each of the three ifs assigns m1ErrPercent.
ErrPercents(m1, m5, m15, m1Err, m5Err, m15Err) ==
    LET after1 == IF m1 > 0 THEN Div(m1Err, m1) ELSE Zero
        after5 == IF m5 > 0 THEN Div(m5Err, m5) ELSE after1
        after15 == IF m15 > 0 THEN Div(m15Err, m15) ELSE after5
    IN  [m1ErrPercent |-> after15, m5ErrPercent |-> Zero, m15ErrPercent |-> Zero]

MinStored(s) == s.min

\* "mean, min := 0, 0; if hs.count > 0 { ...; min = hs.min }"
MinExported(s) == IF s.count > 0 THEN s.min ELSE 0

\* "if hs.count > 0 { mean = hs.total / hs.count }"
Mean(s) == IF s.count > 0 THEN s.total \div s.count ELSE 0

\* The Status value composed from the object s after the ticks. Samples is
\* what durationSampler.Percentiles() is computed from (the seven
\* percentile fields are functions of it), Codes what cc.Codes() returns.
StatusValue(s) ==
    LET pct == ErrPercents(EWMARate(s.rate1), EWMARate(s.rate5), EWMARate(s.rate15),
                           EWMARate(s.errRate1), EWMARate(s.errRate5),
                           EWMARate(s.errRate15))
    IN  [Count |-> s.count,
         M1 |-> EWMARate(s.rate1), M5 |-> EWMARate(s.rate5), M15 |-> EWMARate(s.rate15),
         ErrCount |-> s.errCount,
         M1Err |-> EWMARate(s.errRate1), M5Err |-> EWMARate(s.errRate5),
         M15Err |-> EWMARate(s.errRate15),
         M1ErrPercent |-> pct.m1ErrPercent, M5ErrPercent |-> pct.m5ErrPercent,
         M15ErrPercent |-> pct.m15ErrPercent,
         Min |-> MinExported(s), Max |-> s.max, Mean |-> Mean(s),
         Samples |-> s.durationSampler,
         ReqSize |-> s.reqSize, RespSize |-> s.respSize,
         Codes |-> s.cc]

ResetNever(s) == s

\* hs.durationSampler.Reset(); hs.cc.Reset()
Reset(s) == [s EXCEPT !.durationSampler = EmptyMap, !.cc = EmptyMap]

\* Status, from Lock to the deferred Unlock: nothing else runs on the
\* object while the write lock is held.
Status ==
    /\ Len(snaps) < MaxStatus
    /\ Lock(hs)
    /\ snaps' = Append(snaps, StatusValue(TickAll(hs)))
    /\ hs' = Reset(TickAll(hs))
    /\ UNCHANGED <<pipeVars, tp, log>>

\* New() has returned; no pipeline exists.
InitHTTPStat ==
    /\ InitStat
    /\ spec = <<>>
    /\ pending = <<>>
    /\ vdone = FALSE
    /\ verr = <<>>
    /\ p = <<>>
    /\ prev = <<>>
    /\ rl = <<>>
    /\ inst = <<>>
    /\ h = <<>>
    /\ trace = <<>>

\* the steps of Stat after the read lock is held
StatStep ==
    \/ StatCount
    \/ StatErr
    \/ StatTotal
    \/ StatMinLoad
    \/ StatMinCAS
    \/ StatMaxLoad
    \/ StatMaxCAS
    \/ StatSample
    \/ StatSizes
    \/ StatCode
    \/ StatRUnlock

NextStat ==
    \/ StatRLock
    \/ StatStep
    \/ Status

SpecStat == InitHTTPStat /\ [][NextStat]_vars

\* What the CAS loops of Stat run against: the Stat calls of the other
\* goroutines. Status holds the write lock, so it takes no step while a
\* call is inside Stat, and it writes neither min nor max.
NextCalls ==
    \/ StatRLock
    \/ StatStep

\* Concurrent Stat calls with the scheduling Stat relies on: every
\* goroutine inside Stat is given its next step.
SpecCallsFair ==
    /\ InitHTTPStat
    /\ [][NextCalls]_vars
    /\ \A t \in Threads : WF_vars(StatStep /\ tp'[t] # tp[t])

----------------------------------------------------------------------------
(* Properties of HTTPStat                                                  *)

\* The Stat calls that had returned when snapshot k was taken, and those
\* that returned between snapshot k-1 and snapshot k.
ReturnedBefore(k) == {x \in DOMAIN log : x.end < k}

ReturnedJustBefore(k) == {x \in DOMAIN log : x.end = k - 1}

\* A Stat call was under way when snapshot k was taken.
Straddled(k) ==
    \/ \E x \in DOMAIN log : x.begin < k /\ x.end >= k
    \/ \E t \in Threads : tp[t].pc # "idle" /\ tp[t].begin < k

\* how many calls of S, and the sum of f over them
Calls(S) == SumOver(log, S)

RECURSIVE TotalMs(_)
TotalMs(S) ==
    IF S = {} THEN 0
    ELSE LET x == CHOOSE y \in S : TRUE
         IN  log[x] * Milliseconds(x.m.Duration) + TotalMs(S \ {x})

\* C12: a snapshot taken when every Stat call begun before it has returned
\* reports as count the number of those calls and as errCount the number
\* of them with a status code of 400 or more.
C12_NoLostUpdates ==
    \A k \in 1..Len(snaps) :
        ~Straddled(k) =>
            /\ snaps[k].Count = Calls(ReturnedBefore(k))
            /\ snaps[k].ErrCount =
                   Calls({x \in ReturnedBefore(k) : x.m.StatusCode >= 400})

C12_Witness ==
    /\ Len(snaps) = 2
    /\ snaps[1].Count >= 1
    /\ snaps[2].Count = MaxStat
    /\ snaps[2].ErrCount = 1
    /\ \E x \in DOMAIN log : x.m.StatusCode = 399
    /\ \E x \in DOMAIN log : x.m.StatusCode = 400

\* C13: in every snapshot, with count > 0, min <= mean <= max and mean is
\* total / count in integer division; with count = 0, min, mean, max and
\* the three error percentages are 0.
C13_MinMeanMax ==
    \A k \in 1..Len(snaps) :
        IF snaps[k].Count > 0
        THEN /\ snaps[k].Min <= snaps[k].Mean
             /\ snaps[k].Mean <= snaps[k].Max
             /\ snaps[k].Mean = TotalMs(ReturnedBefore(k)) \div snaps[k].Count
        ELSE /\ snaps[k].Min = 0
             /\ snaps[k].Mean = 0
             /\ snaps[k].Max = 0
             /\ snaps[k].M1ErrPercent = Zero
             /\ snaps[k].M5ErrPercent = Zero
             /\ snaps[k].M15ErrPercent = Zero

C13_Witness ==
    /\ Len(snaps) = 2
    /\ snaps[1].Count = 0
    /\ snaps[2].Count = MaxStat
    /\ snaps[2].Min < snaps[2].Mean
    /\ snaps[2].Mean < snaps[2].Max

\* the samples, and the codes, of the calls of S, as bags
SamplesOf(S, d) == Calls({x \in S : x.m.Duration = d})

CodesOf(S, c) == Calls({x \in S : x.m.StatusCode = c})

RECURSIVE CodesReported(_)
CodesReported(k) == IF k = 0 THEN 0 ELSE BagSize(snaps[k].Codes) + CodesReported(k - 1)

\* C14: each snapshot's samples and codes are exactly those of the Stat
\* calls that returned since the snapshot before it, so that each call is
\* reported once, by the first snapshot after it, and the code counts of
\* all snapshots add up to count; count, errCount, the sizes and total
\* (through mean) go on accumulating over all calls.
C14_ResetDiscipline ==
    \A k \in 1..Len(snaps) :
        /\ \A d \in StatDurations \cup DOMAIN snaps[k].Samples :
              CountIn(snaps[k].Samples, d) = SamplesOf(ReturnedJustBefore(k), d)
        /\ \A c \in {399, 400} \cup DOMAIN snaps[k].Codes :
              CountIn(snaps[k].Codes, c) = CodesOf(ReturnedJustBefore(k), c)
        /\ CodesReported(k) = snaps[k].Count
        /\ snaps[k].Count = Calls(ReturnedBefore(k))
        /\ k > 1 =>
              /\ snaps[k].Count >= snaps[k - 1].Count
              /\ snaps[k].ErrCount >= snaps[k - 1].ErrCount
              /\ snaps[k].ReqSize >= snaps[k - 1].ReqSize
              /\ snaps[k].RespSize >= snaps[k - 1].RespSize

C14_Witness ==
    /\ Len(snaps) = 2
    /\ BagSize(snaps[1].Samples) = 1
    /\ BagSize(snaps[2].Samples) = 2
    /\ snaps[2].Count = MaxStat

\* the quotient the claim prescribes for one window
WindowPercent(err, all) == IF all > 0 THEN Div(err, all) ELSE Zero

\* C15: in every snapshot each window's error percentage is that window's
\* error rate over its total rate when the total rate is positive, else 0.
C15_PerWindowErrPercent ==
    \A k \in 1..Len(snaps) :
        /\ SameValue(snaps[k].M1ErrPercent, WindowPercent(snaps[k].M1Err, snaps[k].M1))
        /\ SameValue(snaps[k].M5ErrPercent, WindowPercent(snaps[k].M5Err, snaps[k].M5))
        /\ SameValue(snaps[k].M15ErrPercent, WindowPercent(snaps[k].M15Err, snaps[k].M15))

\* the sum over the calls of S of the weight w gives each
RECURSIVE Weighted(_, _)
Weighted(S, w) ==
    IF S = {} THEN 0
    ELSE LET x == CHOOSE y \in S : TRUE
         IN  log[x] * w[x] + Weighted(S \ {x}, w)

\* C19: no snapshot is taken between a Stat call's RLock and RUnlock, also
\* when Stat calls overlap each other, so that count, errCount, total
\* (through mean), reqSize, respSize and the drained codes of a snapshot
\* all account for the same, complete Stat calls.
C19_SnapshotExclusion ==
    /\ \A x \in DOMAIN log : x.begin = x.end
    /\ \A t \in Threads : tp[t].pc # "idle" => tp[t].begin = Len(snaps)
    /\ \A k \in 1..Len(snaps) :
          LET R == ReturnedBefore(k)
          IN  /\ snaps[k].Count = Calls(R)
              /\ snaps[k].ErrCount = Calls({x \in R : x.m.StatusCode >= 400})
              /\ snaps[k].Count > 0 => snaps[k].Mean = TotalMs(R) \div Calls(R)
              /\ snaps[k].ReqSize = Weighted(R, [x \in R |-> x.m.ReqSize])
              /\ snaps[k].RespSize = Weighted(R, [x \in R |-> x.m.RespSize])
              /\ BagSize(snaps[k].Codes) = Calls(ReturnedJustBefore(k))

C19_Witness ==
    /\ hs.readers = Cardinality(Threads)
    /\ Len(snaps) >= 1
    /\ snaps[1].Count >= 1
    /\ \E t \in Threads : tp[t].pc = "unlock"

AllReturned == \A t \in Threads : tp[t].pc = "idle"

\* the durations, in milliseconds, of the calls that have returned
MsReturned == {Milliseconds(x.m.Duration) : x \in DOMAIN log}

\* Once all calls have returned, min is the smallest and max the largest.
MinMaxFinal ==
    (AllReturned /\ MsReturned # {}) =>
        /\ hs.min \in MsReturned
        /\ hs.max \in MsReturned
        /\ \A d \in MsReturned : hs.min <= d /\ d <= hs.max

\* min never increases, max never decreases
MinMaxMonotone == [][hs'.min <= hs.min /\ hs'.max >= hs.max]_vars

\* each CAS-retry loop is left
LoopsFinish ==
    \A t \in Threads :
        /\ (tp[t].pc \in {"minLoad", "minCAS"}) ~> (tp[t].pc \notin {"minLoad", "minCAS"})
        /\ (tp[t].pc \in {"maxLoad", "maxCAS"}) ~> (tp[t].pc \notin {"maxLoad", "maxCAS"})

\* C20: for concurrent Stat calls in any interleaving of their load,
\* compare and CAS steps, the stored min and max are the smallest and the
\* largest duration once all calls have returned, min never increases and
\* max never decreases meanwhile, and each retry loop finishes.
C20_LockFreeMinMax == []MinMaxFinal /\ MinMaxMonotone /\ LoopsFinish

\* a CAS of the min loop has failed and the goroutine loads again
C20_Witness ==
    \E t \in Threads :
        /\ tp[t].pc = "minLoad"
        /\ tp[t].min > 0
        /\ hs.min < tp[t].min
        /\ hs.min > tp[t].duration

----------------------------------------------------------------------------
(* Inherit with a spec that cannot be built                                *)

\* Entries reload fails on in its creation loop: NewFilterSpec cannot
\* build the first (no name), the kind of the second is not registered.
BadEntries == {[name |-> "", kind |-> "K2"], [name |-> "B", kind |-> "K3"]}

Unbuildable(fs) == \E k \in 1..Len(fs) : fs[k] \in BadEntries

\* Specs presented to Inherit without having passed Validate, or after the
\* registry lost a kind: at least one entry is bad, at any position.
FailingSpecs ==
    {s \in [Filters : SeqsUpTo(ReloadEntries \cup BadEntries, MaxFilters), Flow : {<<>>}] :
        Unbuildable(s.Filters)}

InitReload ==
    /\ spec \in ReloadSpecs
    /\ pending \in {<<s>> : s \in ReloadSpecs \cup FailingSpecs}
    /\ vdone = TRUE
    /\ verr = NoErr
    /\ \E nilMap \in BOOLEAN : p = NewPipeline(nilMap)
    /\ prev = NoPipeline
    /\ rl = IdleReload
    /\ inst = <<>>
    /\ h = IdleHandle
    /\ trace = <<>>
    /\ NoStat

NextReload ==
    \/ PipelineInit
    \/ PipelineInherit
    \/ ReloadFilter
    \/ ReloadBind

\* Init of a generation, then Inherit with a spec that may fail.
SpecReload == InitReload /\ [][NextReload]_vars

\* Inherit has failed on the spec and nothing of the previous generation
\* has been handed over or closed.
FailedBeforeHandOff ==
    (rl.hasPrev /\ Unbuildable(spec.Filters)) =>
        /\ rl.pc = "panic"
        /\ \A o \in FilterSet(prev) :
              /\ ~HandedOff(o)
              /\ CountOp(o, "Close") = 0

\* The previous generation is the generation Inherit was called with, as
\* it was then.
PreviousIntact ==
    [][(rl'.hasPrev /\ Unbuildable(spec'.Filters)) =>
          prev' = IF pending' # pending THEN p ELSE prev]_vars

\* C21: when Inherit fails because a filter spec cannot be built or a kind
\* is not registered, no filter of the previous generation has been passed
\* to Inherit or closed and the previous generation's filters and flow are
\* unchanged.
C21_FailedReloadLeavesPrevious == []FailedBeforeHandOff /\ PreviousIntact

\* Inherit failed on a spec whose first entry names a filter the previous
\* generation holds and whose second entry is bad.
C21_Witness ==
    /\ rl.hasPrev
    /\ rl.pc = "panic"
    /\ Len(spec.Filters) = 2
    /\ spec.Filters[1] \notin BadEntries
    /\ spec.Filters[2] \in BadEntries
    /\ spec.Filters[1].name \in DOMAIN prev.filters
    /\ Len(prev.flow) > 0

----------------------------------------------------------------------------
(* The trace tag                                                           *)

\* The entries the claim prescribes for the invocations of trace from the
\* i-th on: name(result,duration), the result field empty for the empty
\* label, joined by "->".
RECURSIVE TagEntries(_, _, _)
TagEntries(tr, stats, i) ==
    IF i > Len(tr) THEN ""
    ELSE (IF i > 1 THEN "->" ELSE "")
         \o tr[i].name \o "(" \o tr[i].label \o "," \o stats[i].Duration \o ")"
         \o TagEntries(tr, stats, i + 1)

\* C22: a Handle call that has invoked filters adds one tag, after the
\* last invocation: "pipeline: " followed by one entry name(result,duration)
\* per invocation, in invocation order, joined by "->"; a filter that
\* returned the empty label has an empty result field; skipped filters do
\* not appear.
C22_TraceTag ==
    (h.pc = "done" /\ trace # <<>>) =>
        /\ Len(h.stats) = Len(trace)
        /\ h.tag = "pipeline: " \o TagEntries(trace, h.stats, 1)

====
